---- MODULE Spec2Model ----
(***************************************************************************)
(* Model of the QR code API: the request gate (auth_middleware), the token *)
(* service (AuthService), the authentication endpoints and the handlers    *)
(* behind the gate.                                                        *)
(*                                                                         *)
(* Time.  The wall clock is counted in ticks, TicksPerSec ticks to the     *)
(* second.  time.time() is the clock itself (a float in the code); the     *)
(* whole-second "now" of python-jose and of int(...) is clock \div         *)
(* TicksPerSec.  Token timestamps (exp, iat) are whole seconds.            *)
(*                                                                         *)
(* Tokens.  A compact JWT string is modelled by what jwt.decode reads from *)
(* it: whether it parses, the key and algorithm it was signed with, and    *)
(* its claims.                                                             *)
(***************************************************************************)
EXTENDS Integers, Sequences, FiniteSets, TLC

(* ---------------------------------------------------------------- bounds *)
TicksPerSec == 2      \* clock resolution
StartSec == 7200      \* the clock reading in the initial state, seconds
MaxTicks == 3         \* single ticks the clock may advance between jumps
MaxJumps == 1         \* jumps of a whole default TTL the clock may make

(* ------------------------------------------------------- configuration *)
secret_key == "your-super-secret-jwt-key-change-this-in-production"
algorithm == "HS256"
access_token_expire_minutes == 30
auth_username == "admin"
auth_password == "secure_password_123"

HTTP_200_OK == 200
HTTP_401_UNAUTHORIZED == 401
HTTP_500_INTERNAL_SERVER_ERROR == 500

\* get_valid_credentials(): {username: password}, a function on one name
VALID_CREDENTIALS == [u \in {auth_username} |-> auth_password]

\* offsets of the process's local time zone from UTC, seconds (east positive)
TzOffsets == {0 - 3600, 0, 3600}

(* ------------------------------------------------------------- claims *)
NoClaim == [kind |-> "absent", val |-> 0]
IntClaim(n) == [kind |-> "int", val |-> n]
StrClaim(n) == [kind |-> "str", val |-> n]     \* a numeric string, "1234"

\* payload.get(name): None when the claim is absent
IsNone(c) == c.kind = "absent"

\* Python truthiness of payload.get("exp"): None, 0 and "" are falsy
Truthy(c) ==
    CASE c.kind = "absent" -> FALSE
      [] c.kind = "int" -> c.val # 0
      [] OTHER -> TRUE

(* -------------------------------------------------------------- tokens *)
\* jwt.encode(claims, key, algorithm=alg)
JwtEncode(sub, exp, iat, scopes, key, alg) ==
    [wellformed |-> TRUE, key |-> key, alg |-> alg,
     sub |-> sub, exp |-> exp, iat |-> iat, scopes |-> scopes]

\* a string that is not a compact JWS ("", "invalid-token")
GarbageToken(tag) ==
    [wellformed |-> FALSE, key |-> tag, alg |-> "none",
     sub |-> "", exp |-> NoClaim, iat |-> NoClaim, scopes |-> {}]

NoToken == GarbageToken("")

\* jwt.decode with the signature check left out
JwtDecode_NoSignature(token, key, algs, nowSec) ==
    IF ~token.wellformed
    THEN [exc |-> "JWTError", msg |-> "Not enough segments"]
    ELSE IF ~IsNone(token.exp) /\ token.exp.val < nowSec
    THEN [exc |-> "ExpiredSignatureError", msg |-> "Signature has expired."]
    ELSE [exc |-> "none", msg |-> ""]

\* python-jose jwt.decode(token, key, algorithms=[alg]) at whole second
\* nowSec: the exception it raises ("none" when it returns the claims) and
\* the exception's message.  Order of the checks: structure, algorithm
\* allowed, signature, then the exp claim (int(exp) < now is expired; a
\* missing exp is not checked).
JwtDecode(token, key, algs, nowSec) ==
    IF ~token.wellformed
    THEN [exc |-> "JWTError", msg |-> "Not enough segments"]
    ELSE IF token.alg \notin algs
    THEN [exc |-> "JWTError", msg |-> "The specified alg value is not allowed"]
    ELSE IF token.key # key
    THEN [exc |-> "JWTError", msg |-> "Signature verification failed."]
    ELSE IF ~IsNone(token.exp) /\ token.exp.val < nowSec
    THEN [exc |-> "ExpiredSignatureError", msg |-> "Signature has expired."]
    ELSE [exc |-> "none", msg |-> ""]

\* except JWTError: ExpiredSignatureError is a subclass of JWTError
IsJWTError(exc) == exc \in {"JWTError", "ExpiredSignatureError"}

(* ------------------------------------------------------- token service *)
TokenScopes == {"qr:generate"}      \* TokenPayload.scopes / User.scopes default

\* expires_delta: Optional[timedelta]; None is [given |-> FALSE]
NoDelta == [given |-> FALSE, secs |-> 0]
Delta(s) == [given |-> TRUE, secs |-> s]

\* "if expires_delta:" -- None and timedelta(0) are both falsy
DeltaTruthy(delta) == delta.given /\ delta.secs # 0

\* int(expire.timestamp()) of a naive datetime holding UTC wall-clock time:
\* timestamp() reads a naive datetime as local time, so the result is off
\* by the zone's offset; int() drops the fraction
NaiveTimestamp(ticks, tz) == (ticks - tz * TicksPerSec) \div TicksPerSec

\* python-jose's conversion of a datetime claim:
\* timegm(dt.utctimetuple()), whole seconds of the UTC reading
Timegm(ticks) == ticks \div TicksPerSec

\* AuthService.create_access_token(user, expires_delta) at clock clk in a
\* process whose local zone is tz seconds east of UTC
SvcCreateAccessToken(user, delta, clk, tz) ==
    LET expire == IF DeltaTruthy(delta)
                  THEN clk + delta.secs * TicksPerSec
                  ELSE clk + access_token_expire_minutes * 60 * TicksPerSec
    IN JwtEncode(user.id,
                 IntClaim(NaiveTimestamp(expire, tz)),
                 IntClaim(clk \div TicksPerSec),
                 user.scopes, secret_key, algorithm)

\* TokenPayload(**payload): sub, exp and iat are required fields
TokenPayloadOk(token) ==
    /\ token.sub # "<None>"
    /\ ~IsNone(token.exp)
    /\ ~IsNone(token.iat)

\* AuthService.verify_token(token) at clock clk: what the call returns or
\* raises, with the exception's message
SvcVerifyToken(token, clk) ==
    LET d == JwtDecode(token, secret_key, {algorithm}, clk \div TicksPerSec)
    IN IF IsJWTError(d.exc)
       THEN [result |-> "ValueError", msg |-> "Invalid token: " \o d.msg]
       ELSE IF ~TokenPayloadOk(token)
       THEN [result |-> "ValidationError", msg |-> "Field required"]
       ELSE [result |-> "TokenPayload", msg |-> ""]

\* AuthService.has_permission(token_payload, required_scope)
has_permission(token, required_scope) == required_scope \in token.scopes

(* ---------------------------------------------------------- requests *)
\* A URL path is the sequence of its segments: "/v1/auth/token" is
\* <<"v1", "auth", "token">>
PathHealth == <<"v1", "health">>
PathDocs == <<"docs">>
PathToken == <<"v1", "auth", "token">>
PathValidate == <<"v1", "auth", "validate">>
PathQr == <<"v1", "qr-code">>
PathAuthNoSlash == <<"v1", "auth">>          \* "/v1/auth", no handler

\* the bypass list written without the version prefix
Bypassed_Unversioned(path) ==
    \/ path \in {<<"health">>, <<"docs">>, <<"redoc">>, <<"openapi.json">>}
    \/ (Len(path) >= 3 /\ path[1] = "v1" /\ path[2] = "auth")

\* request.url.path in [...] or request.url.path.startswith("/v1/auth/")
Bypassed(path) ==
    \/ path \in {<<"v1", "health">>, <<"docs">>, <<"redoc">>, <<"openapi.json">>}
    \/ (Len(path) >= 3 /\ path[1] = "v1" /\ path[2] = "auth")

\* An Authorization header value is its scheme followed by the pieces that
\* single spaces separate: "Bearer abc" is scheme "Bearer", rest <<abc>>;
\* "Bearer" alone has rest <<>>; "" has scheme "" and rest <<>>
NoHeader == [present |-> FALSE, scheme |-> "", rest |-> <<>>]
Header(scheme, rest) == [present |-> TRUE, scheme |-> scheme, rest |-> rest]

\* "authorization is None" in the place of "not authorization"
HeaderFalsy_OnlyNone(h) == ~h.present

\* "not authorization": None or the empty string
HeaderFalsy(h) == ~h.present \/ (h.scheme = "" /\ h.rest = <<>>)

\* authorization.startswith("Bearer ")
StartsWithBearer(h) == h.scheme = "Bearer" /\ Len(h.rest) >= 1

(* --------------------------------------------------------- responses *)
\* status, the body's top-level "error" key ("" when the body has none),
\* the detail or message text, the "error" key inside a detail that is a
\* dict, and the fields of the authentication endpoints
Response(status, error, detail) ==
    [status |-> status, error |-> error, detail |-> detail,
     valid |-> "", access_token |-> NoToken, expires_in |-> 0,
     user_id |-> "", expires_at |-> NoClaim, media |-> "",
     detail_error |-> "", content |-> [kind |-> "", width |-> 0,
                                       height |-> 0],
     headers |-> [h \in {} |-> ""], json |-> [encoding |-> ""]]

NoResponse == Response(0, "", "")

\* raise HTTPException(status_code=..., detail="..."): the detail is a
\* plain string, the body carries no "error" key
HTTPException(status, detail) == Response(status, "", detail)

(* -------------------------------------------------------------- gate *)
\* request.state after the gate: user_id and token_exp, unset at first
NoState == [set |-> FALSE, user_id |-> "", token_exp |-> NoClaim]

\* auth_middleware up to call_next, for a path that is not bypassed, at
\* clock clk: admit, or the HTTPException raised; state is request.state
AuthGate(authorization, clk) ==
    LET token == authorization.rest[1]      \* authorization.split(" ")[1]
        d == JwtDecode(token, secret_key, {algorithm}, clk \div TicksPerSec)
        st == [set |-> TRUE, user_id |-> token.sub, token_exp |-> token.exp]
    IN IF HeaderFalsy(authorization)
       THEN [admit |-> FALSE, state |-> NoState,
             resp |-> HTTPException(HTTP_401_UNAUTHORIZED,
                                    "Missing authentication token")]
       ELSE IF ~StartsWithBearer(authorization)
       THEN [admit |-> FALSE, state |-> NoState,
             resp |-> HTTPException(HTTP_401_UNAUTHORIZED,
                 "Invalid authentication token format. Expected: 'Bearer <token>'")]
       ELSE IF IsJWTError(d.exc)
       THEN [admit |-> FALSE, state |-> NoState,
             resp |-> HTTPException(HTTP_401_UNAUTHORIZED,
                                    "Invalid authentication token")]
       ELSE IF Truthy(token.exp) /\ token.exp.kind = "str"
       THEN \* str < float raises TypeError: "except Exception" answers 500
            [admit |-> FALSE, state |-> st,
             resp |-> HTTPException(HTTP_500_INTERNAL_SERVER_ERROR,
                                    "Authentication service error")]
       ELSE IF Truthy(token.exp) /\ token.exp.val * TicksPerSec < clk
       THEN [admit |-> FALSE, state |-> st,
             resp |-> HTTPException(HTTP_401_UNAUTHORIZED, "Token has expired")]
       ELSE [admit |-> TRUE, state |-> st, resp |-> NoResponse]

(* ------------------------------------------- authentication endpoints *)
\* create_access_token without the comparison of the password
TokenEndpoint_NoPassword(username, password, clk) ==
    IF username \notin DOMAIN VALID_CREDENTIALS
    THEN HTTPException(HTTP_401_UNAUTHORIZED, "Invalid username or password")
    ELSE [Response(HTTP_200_OK, "", "") EXCEPT
             !.access_token =
                 JwtEncode(username,
                     IntClaim(Timegm(clk + access_token_expire_minutes * 60
                                               * TicksPerSec)),
                     IntClaim(Timegm(clk)),
                     {"qr:generate"}, secret_key, algorithm),
             !.expires_in = access_token_expire_minutes * 60]

\* POST /auth/token: create_access_token(request) at clock clk
TokenEndpoint(username, password, clk) ==
    IF username \notin DOMAIN VALID_CREDENTIALS
    THEN HTTPException(HTTP_401_UNAUTHORIZED, "Invalid username or password")
    ELSE IF VALID_CREDENTIALS[username] # password
    THEN HTTPException(HTTP_401_UNAUTHORIZED, "Invalid username or password")
    ELSE LET expire == clk + access_token_expire_minutes * 60 * TicksPerSec
             access_token == JwtEncode(username,
                                       IntClaim(Timegm(expire)),
                                       IntClaim(Timegm(clk)),
                                       {"qr:generate"}, secret_key, algorithm)
         IN [Response(HTTP_200_OK, "", "") EXCEPT
                !.access_token = access_token,
                !.expires_in = access_token_expire_minutes * 60]

\* The value bound to the parameter "token: str = security" of
\* validate_token.  The default is the HTTPBearer object itself, not a
\* dependency on it, so the parameter is a query parameter: it is the
\* query string's text when the request has one and the HTTPBearer object
\* otherwise.  The Authorization header is not read.
BindTokenParam(query_token) ==
    IF query_token.given
    THEN [type |-> "str", credentials |-> query_token.token]
    ELSE [type |-> "HTTPBearer", credentials |-> NoToken]

\* whether "token.credentials" exists: neither str nor HTTPBearer has it
HasCredentials(param) == param.type = "HTTPAuthorizationCredentials"

\* POST /auth/validate: validate_token(token) at clock clk
ValidateEndpoint(query_token, clk) ==
    LET param == BindTokenParam(query_token)
        d == JwtDecode(param.credentials, secret_key, {algorithm},
                       clk \div TicksPerSec)
    IN IF HasCredentials(param) /\ d.exc = "none"
       THEN [Response(HTTP_200_OK, "", "") EXCEPT
                !.valid = "true",
                !.user_id = param.credentials.sub,
                !.expires_at = param.credentials.exp]
       ELSE \* except Exception: AttributeError and JWTError alike
            [Response(HTTP_200_OK, "Invalid or expired token", "") EXCEPT
                !.valid = "false"]

(* ------------------------------------------------------ QR generation *)
HTTP_400_BAD_REQUEST == 400
HTTP_422_UNPROCESSABLE_ENTITY == 422
max_length == 2000

\* ErrorCorrectionLevel -> capacity in bytes (validate_capacity)
capacity_limits == [L |-> 1663, M |-> 1273, Q |-> 927, H |-> 713]

\* A payload string is modelled by what the validators read from it: its
\* length in characters and in UTF-8 bytes, whether strip() leaves nothing,
\* its scheme prefix as written ("" when it has none), whether what
\* follows the scheme matches the host/port/path part of the URL pattern,
\* and whether str.encode('utf-8') succeeds
Payload(chars, bytes, blank, scheme, host_ok) ==
    [chars |-> chars, bytes |-> bytes, blank |-> blank,
     scheme |-> scheme, host_ok |-> host_ok, encodable |-> TRUE]

\* a payload holding a lone surrogate: data.encode('utf-8') raises
\* UnicodeEncodeError
Unencodable(data) == [data EXCEPT !.encodable = FALSE]

\* the pattern of is_valid_url after the scheme: a domain ending in a TLD,
\* localhost or four dotted numbers; an optional port of digits; nothing,
\* "/" or a path or query without white space
UrlPatternTail(host, port, tail) ==
    /\ host \in {"domain.tld", "localhost", "ipv4"}
    /\ port \in {"", ":digits"}
    /\ tail \in {"", "/", "/path", "?query"}

\* data.startswith(('http://', 'https://', 'ftp://')), case-sensitive
LooksLikeUrl_NoFtp(data) == data.scheme \in {"http://", "https://"}
LooksLikeUrl(data) == data.scheme \in {"http://", "https://", "ftp://"}

\* is_valid_url(url): the pattern starts with ^https?:// under re.IGNORECASE
is_valid_url(data) ==
    /\ data.scheme \in {"http://", "https://", "HTTP://", "HTTPS://"}
    /\ data.host_ok

ValidationResult(is_valid, message) ==
    [is_valid |-> is_valid, message |-> message]

\* validate_qr_data(data)
validate_qr_data_Inclusive(data) ==
    IF data.chars = 0 \/ data.blank
    THEN ValidationResult(FALSE, "Data cannot be empty")
    ELSE IF data.chars >= 2000
    THEN ValidationResult(FALSE,
                          "Data exceeds maximum length of 2000 characters")
    ELSE IF LooksLikeUrl(data) /\ ~is_valid_url(data)
    THEN ValidationResult(FALSE, "Invalid URL format")
    ELSE IF ~data.encodable
    THEN ValidationResult(FALSE, "Data contains invalid characters")
    ELSE ValidationResult(TRUE, "Valid")
validate_qr_data(data) ==
    IF data.chars = 0 \/ data.blank
    THEN ValidationResult(FALSE, "Data cannot be empty")
    ELSE IF data.chars > 2000
    THEN ValidationResult(FALSE,
                          "Data exceeds maximum length of 2000 characters")
    ELSE IF LooksLikeUrl(data) /\ ~is_valid_url(data)
    THEN ValidationResult(FALSE, "Invalid URL format")
    ELSE IF ~data.encodable
    THEN ValidationResult(FALSE, "Data contains invalid characters")
    ELSE ValidationResult(TRUE, "Valid")

\* f"Data too large for error correction level {error_correction.value}. "
\* f"Maximum: {max_capacity} bytes, got: {binary_size}"
CapacityMessage(ecc, max_capacity, binary_size) ==
    "Data too large for error correction level " \o ecc \o ". Maximum: "
    \o ToString(max_capacity) \o " bytes, got: " \o ToString(binary_size)

\* validate_capacity(data, error_correction)
validate_capacity_CharCount(data, ecc) ==
    IF ~data.encodable
    THEN ValidationResult(FALSE, "Data contains invalid characters")
    ELSE IF data.chars > capacity_limits[ecc]
    THEN ValidationResult(FALSE, CapacityMessage(ecc, capacity_limits[ecc],
                                                 data.chars))
    ELSE ValidationResult(TRUE, "Valid")
validate_capacity(data, ecc) ==
    IF ~data.encodable
    THEN ValidationResult(FALSE, "Data contains invalid characters")
    ELSE IF data.bytes > capacity_limits[ecc]
    THEN ValidationResult(FALSE, CapacityMessage(ecc, capacity_limits[ecc],
                                                 data.bytes))
    ELSE ValidationResult(TRUE, "Valid")

(* ---- QRCodeRequest *)
\* the fields of QRCodeRequest in the order they are declared, which is the
\* order they are validated in
QRCodeRequestFields ==
    <<"data", "size", "format", "error_correction", "output_format">>

\* `values` as a validator of the field sees it: the fields validated
\* before it
ValuesOf(field) ==
    LET i == CHOOSE k \in 1..Len(QRCodeRequestFields) :
                 QRCodeRequestFields[k] = field
    IN {QRCodeRequestFields[k] : k \in 1..(i - 1)}

\* QRCodeRequest.validate_data(cls, v): the ValueError's message, "" if none
ModelValidateData(v) ==
    IF v.chars = 0 \/ v.blank THEN "Data cannot be empty"
    ELSE IF LooksLikeUrl(v) /\ ~is_valid_url(v) THEN "Invalid URL format"
    ELSE IF ~v.encodable THEN "Data contains invalid characters"
    ELSE ""

\* QRCodeRequest.validate_capacity(cls, v, values), a validator of 'data'
ModelValidateCapacity(v, ecc) ==
    IF "error_correction" \in ValuesOf("data")
    THEN IF ~v.encodable THEN "Data contains invalid characters"
         ELSE IF v.bytes > capacity_limits[ecc]
         THEN CapacityMessage(ecc, capacity_limits[ecc], v.bytes)
         ELSE ""
    ELSE ""

\* QRCodeRequest(data=..., error_correction=...) is constructed: the Field
\* constraints of 'data' and its two validators
QRCodeRequestOk(data, ecc) ==
    /\ data.chars >= 1 /\ data.chars <= max_length
    /\ ModelValidateData(data) = ""
    /\ ModelValidateCapacity(data, ecc) = ""

(* ---- rendering *)
\* QRSize.pixels
pixels(size) ==
    CASE size = "small" -> 150
      [] size = "medium" -> 300
      [] size = "large" -> 600

box_size == 10
border == 4

\* qr.modules_count: the modules per side of a symbol of a version
MatrixSize(version) == 17 + 4 * version

NoImage == [kind |-> "", width |-> 0, height |-> 0]

\* what a call gives: the value returned, or the exception raised with its
\* class and its text
Returned(image) ==
    [raised |-> FALSE, exc |-> "", text |-> "", image |-> image]
Raised(exc, text) ==
    [raised |-> TRUE, exc |-> exc, text |-> text, image |-> NoImage]

\* Where the libraries raise during one call, for any input: "no",
\* "encode" (building the matrix or the raster image), "draw" (a later step
\* of the renderer: writing the image, or reading and drawing it on the PDF
\* page) or "respond" (after the generator returned).  The text of what they
\* raise:
ExceptionText(failure) ==
    IF failure = "encode" THEN "Invalid version" ELSE "cannot write image"

\* qr.make_image(...): (modules + 2 * border) * box_size pixels per side
MakeImage(version) ==
    [kind |-> "image", width |-> (MatrixSize(version) + 2 * border) * box_size,
     height |-> (MatrixSize(version) + 2 * border) * box_size]

\* qr_img.resize((w, h), ...)
Resize(img, w, h) == [img EXCEPT !.width = w, !.height = h]

\* QRCodeGenerator._generate_raster_qr(request)
generate_raster_qr_NoResize(request, version, failure) ==
    IF failure \in {"encode", "draw"}
    THEN Raised("Exception", ExceptionText(failure))
    ELSE Returned([MakeImage(version) EXCEPT
                     !.kind = IF request.format = "jpeg" THEN "jpeg"
                              ELSE "png"])
generate_raster_qr(request, version, failure) ==
    IF failure \in {"encode", "draw"}
    THEN Raised("Exception", ExceptionText(failure))
    ELSE Returned([Resize(MakeImage(version), pixels(request.size),
                          pixels(request.size)) EXCEPT
                     !.kind = IF request.format = "jpeg" THEN "jpeg"
                              ELSE "png"])

\* The dark modules of a symbol that do not depend on the payload, as
\* <<row, col>> from the top left of the symbol: the three finder patterns
\* and the dark module beside the lower left one.  The modules that carry
\* data and error correction are left light.
Finder(r0, c0) ==
    {<<r0 + d[1], c0 + d[2]>> :
       d \in {e \in (0..6) \X (0..6) :
                \/ e[1] \in {0, 6} \/ e[2] \in {0, 6}
                \/ (e[1] \in 2..4 /\ e[2] \in 2..4)}}
Modules(version) ==
    LET n == MatrixSize(version)
    IN Finder(0, 0) \cup Finder(0, n - 7) \cup Finder(n - 7, 0)
       \cup {<<4 * version + 9, 8>>}

\* qr.get_matrix() of a QRCode with a border: the rows of the symbol with
\* `border` light modules added on every side (qrcode.QRCode.get_matrix,
\* "Return the QR Code as a multidimensional array, including the border")
get_matrix(version) ==
    [side |-> MatrixSize(version) + 2 * border,
     on |-> {<<m[1] + border, m[2] + border>> : m \in Modules(version)}]

\* the document _generate_svg_qr writes for a symbol: the size attribute of
\* <svg> and the black <rect> elements
SvgDocument(version) ==
    LET qr_matrix == get_matrix(version)
        matrix_size == qr_matrix.side
        svg_size == (matrix_size + 2 * border) * box_size
    IN [kind |-> "svg", width |-> svg_size, height |-> svg_size,
        rects |-> {[x |-> (m[2] + border) * box_size,
                    y |-> (m[1] + border) * box_size,
                    width |-> box_size, height |-> box_size] :
                   m \in qr_matrix.on}]

\* the versions the encoder is taken to choose, and their documents
Versions == {1, 2, 40}
SvgDocuments == [version \in Versions |-> SvgDocument(version)]

\* QRCodeGenerator._generate_svg_qr(request)
generate_svg_qr(request, version, failure) ==
    IF failure \in {"encode", "draw"}
    THEN Raised("Exception", ExceptionText(failure))
    ELSE Returned(SvgDocuments[version])

\* QRCodeGenerator._generate_pdf_qr(request).  The except branch writes a
\* text page that reads target_size, which the try branch assigns only after
\* the raster image was generated: after a failure before that point the
\* text page itself raises UnboundLocalError.  "pdf-text" is the text page.
generate_pdf_qr(request, version, failure) ==
    LET png == generate_raster_qr([request EXCEPT !.format = "png"], version,
                                  IF failure = "encode" THEN "encode"
                                  ELSE "no")
    IN IF png.raised
       THEN Raised("UnboundLocalError",
                   "cannot access local variable 'target_size'")
       ELSE IF failure = "draw"
       THEN Returned([kind |-> "pdf-text", width |-> 0, height |-> 0])
       ELSE Returned([kind |-> "pdf", width |-> pixels(request.size),
                      height |-> pixels(request.size)])

\* QRCodeGenerator.generate_qr_code(request)
RenderFormat(request, version, failure) ==
    IF request.format = "svg" THEN generate_svg_qr(request, version, failure)
    ELSE IF request.format = "pdf"
    THEN generate_pdf_qr(request, version, failure)
    ELSE generate_raster_qr(request, version, failure)

\* the steps of the pipeline, in the order of the control flow
Pipeline ==
    <<"validate_data", "validate_capacity", "encode", "render", "response">>

\* the steps a renderer enters: building the matrix (qr.add_data, qr.make)
\* and, unless that raised, producing the output from it
RenderSteps(failure) ==
    IF failure = "encode" THEN <<"encode">> ELSE <<"encode", "render">>

\* one call of generate_qr_code: the steps it enters, in order, and what
\* it returns or raises
generate_qr_code_run_RenderFirst(request, version, failure) ==
    LET data_validation == validate_qr_data(request.data)
        capacity_validation ==
            validate_capacity(request.data, request.error_correction)
        r == RenderFormat(request, version, failure)
    IN IF ~data_validation.is_valid
       THEN [steps |-> <<"validate_data">>,
             result |-> Raised("ValueError", data_validation.message)]
       ELSE IF ~capacity_validation.is_valid
       THEN [steps |-> <<"validate_data">> \o RenderSteps(failure)
                         \o <<"validate_capacity">>,
             result |-> Raised("ValueError", capacity_validation.message)]
       ELSE [steps |-> <<"validate_data", "validate_capacity">>
                         \o RenderSteps(failure),
             result |->
               IF r.raised
               THEN Raised("ValueError",
                           "Failed to generate QR code: " \o r.text)
               ELSE r]
generate_qr_code_run(request, version, failure) ==
    LET data_validation == validate_qr_data(request.data)
        capacity_validation ==
            validate_capacity(request.data, request.error_correction)
        r == RenderFormat(request, version, failure)
    IN IF ~data_validation.is_valid
       THEN [steps |-> <<"validate_data">>,
             result |-> Raised("ValueError", data_validation.message)]
       ELSE IF ~capacity_validation.is_valid
       THEN [steps |-> <<"validate_data", "validate_capacity">>,
             result |-> Raised("ValueError", capacity_validation.message)]
       ELSE [steps |-> <<"validate_data", "validate_capacity">>
                         \o RenderSteps(failure),
             result |->
               \* except Exception as e:
               \*     raise ValueError(f"Failed ... {str(e)}")
               IF r.raised
               THEN Raised("ValueError",
                           "Failed to generate QR code: " \o r.text)
               ELSE r]

generate_qr_code(request, version, failure) ==
    generate_qr_code_run(request, version, failure).result

(* ---- POST /qr-code *)
\* How an f-string renders a member of a class that derives from (str,
\* Enum), which depends on the interpreter: the member's value up to
\* Python 3.10, Class.NAME from Python 3.11 on
EnumFormats == {"value", "name"}

\* OutputFormat: the name of the member with a value
MemberName(value) ==
    CASE value = "png" -> "PNG"
      [] value = "svg" -> "SVG"
      [] value = "jpeg" -> "JPEG"
      [] value = "pdf" -> "PDF"

\* f"{request.format}"
FormatMember(value, mode) ==
    IF mode = "value" THEN value ELSE "OutputFormat." \o MemberName(value)

\* media_type = f"image/{request.format}", replaced for svg and pdf, which
\* are recognised by request.format == "svg" / "pdf"
MediaType(format, mode) ==
    IF format = "svg" THEN "image/svg+xml"
    ELSE IF format = "pdf" THEN "application/pdf"
    ELSE "image/" \o FormatMember(format, mode)

\* headers={...} of the response: the values of request.size and
\* request.error_correction as they are encoded, and the marker
ResponseHeaders_AlwaysBinary(request, generation_time_ms, marker) ==
    [h \in {"X-Generation-Time-Ms", "X-QR-Size", "X-Error-Correction",
            "X-Output-Format"} |->
       CASE h = "X-Generation-Time-Ms" -> ToString(generation_time_ms)
         [] h = "X-QR-Size" -> request.size
         [] h = "X-Error-Correction" -> request.error_correction
         [] h = "X-Output-Format" -> "binary"]
ResponseHeaders(request, generation_time_ms, marker) ==
    [h \in {"X-Generation-Time-Ms", "X-QR-Size", "X-Error-Correction",
            "X-Output-Format"} |->
       CASE h = "X-Generation-Time-Ms" -> ToString(generation_time_ms)
         [] h = "X-QR-Size" -> request.size
         [] h = "X-Error-Correction" -> request.error_correction
         [] h = "X-Output-Format" -> marker]

\* base64.b64encode(image_data).decode('utf-8')
Base64Encode(image) == [b64 |-> image]

\* QRCodeBase64Response(...).model_dump()
QRCodeBase64Response(data, format, size, error_correction) ==
    [data |-> data, format |-> format, encoding |-> "base64", size |-> size,
     error_correction |-> error_correction]

\* content=image_data: of the bytes of the body the responses of the model
\* keep the kind and the dimensions of the image
Content(image) ==
    [kind |-> image.kind, width |-> image.width, height |-> image.height]

\* HTTPException(status_code=..., detail={"error": ..., "message": ...})
HTTPExceptionDict(status, error, message) ==
    [Response(status, "", message) EXCEPT !.detail_error = error]

\* generate_qr_code(request) of the endpoint: the response, whether a
\* renderer was entered and whether an exception left it
QrEndpoint(body, version, failure, mode) ==
    LET run == generate_qr_code_run(body, version, failure)
        g == run.result
        rendered == \E i \in DOMAIN run.steps : run.steps[i] = "encode"
    IN [rendered |-> rendered,
        steps |-> run.steps \o (IF g.raised THEN <<>> ELSE <<"response">>),
        failed |-> rendered /\ RenderFormat(body, version, failure).raised,
        resp |->
          IF g.raised /\ g.exc = "ValueError"
          THEN HTTPExceptionDict(HTTP_400_BAD_REQUEST, "validation_error",
                                 g.text)
          ELSE IF g.raised /\ g.exc = "RuntimeError"
          THEN HTTPExceptionDict(HTTP_422_UNPROCESSABLE_ENTITY,
                                 "generation_error", g.text)
          ELSE IF g.raised \/ failure = "respond"
          THEN HTTPExceptionDict(HTTP_500_INTERNAL_SERVER_ERROR,
                   "internal_error",
                   "An unexpected error occurred while processing your request")
          ELSE IF body.output_format = "base64"
          THEN [Response(HTTP_200_OK, "", "") EXCEPT
                   !.media = "application/json",
                   !.json = QRCodeBase64Response(Base64Encode(Content(g.image)),
                                body.format, body.size, body.error_correction),
                   !.headers = ResponseHeaders(body, 0, "base64")]
          ELSE [Response(HTTP_200_OK, "", "") EXCEPT
                   !.media = MediaType(body.format, mode),
                   !.content = Content(g.image),
                   !.headers = ResponseHeaders(body, 0, "binary")]]

(* ------------------------------------------------------ state machine *)
VARIABLES
    clock,      \* wall clock, ticks since the epoch
    tz,         \* offset of the process's local zone from UTC, seconds
    enum_format, \* how the interpreter formats a member of a (str, Enum)
                \* class in an f-string: its "value" or its "name"
    issued,     \* the token most recently issued, with when and how
    req,        \* the request being handled
    pc,         \* "idle", "gate" (request received), "handler", "done"
    state,      \* request.state of the request being handled
    trace,      \* what ran for the request: call_next awaited, endpoint
                \* function called, the steps of the pipeline entered,
                \* renderer entered, renderer raised
    resp,       \* the response (or HTTPException) of the request
    svc,        \* the latest direct call of AuthService.verify_token
    call,       \* the latest direct call of a validator, of the request
                \* model or of the generator, as the unit tests make them
    other       \* a second request, handled concurrently with req

vars == <<clock, tz, enum_format, issued, req, pc, state, trace, resp, svc, call,
         other>>

StartClock == StartSec * TicksPerSec
BigJump == access_token_expire_minutes * 60 * TicksPerSec
Elapsed == clock - StartClock
NowSec == clock \div TicksPerSec

NoIssued == [any |-> FALSE, token |-> NoToken, t0 |-> 0,
             delta |-> NoDelta, via |-> ""]
NoSvc == [done |-> FALSE, token |-> NoToken, clk |-> 0,
          result |-> "", msg |-> ""]
\* a direct call: the function, the request it was given (or the request
\* holding its arguments), what the libraries did, and the outcome
Call(fn, request, version, failure, result) ==
    [fn |-> fn, request |-> request, version |-> version,
     failure |-> failure, result |-> result]
NoTrace == [forwarded |-> FALSE, handler |-> FALSE, steps |-> <<>>,
            rendered |-> FALSE,
            failed |-> FALSE]
NoQuery == [given |-> FALSE, token |-> NoToken]
NoData == Payload(0, 0, TRUE, "", FALSE)

(* ---- inputs *)
\* tokens a client may present: one that the service would have issued,
\* expiring one second after the start, and variations of it
GoodToken ==
    JwtEncode("admin", IntClaim(StartSec + 1), IntClaim(StartSec),
              TokenScopes, secret_key, algorithm)

CraftedTokens ==
    { GoodToken,
      [GoodToken EXCEPT !.exp = IntClaim(StartSec)],
      [GoodToken EXCEPT !.exp = IntClaim(StartSec - 1)],
      [GoodToken EXCEPT !.exp = NoClaim],
      [GoodToken EXCEPT !.exp = StrClaim(StartSec + 1)],
      [GoodToken EXCEPT !.key = "another-key"],
      [GoodToken EXCEPT !.alg = "HS512"],
      [GoodToken EXCEPT !.scopes = {}],
      GarbageToken("invalid-token"),
      GarbageToken("") }

PresentableTokens ==
    CraftedTokens \cup (IF issued.any THEN {issued.token} ELSE {})

Headers ==
    { NoHeader,
      Header("", <<>>),
      Header("Basic", <<GarbageToken("invalid-token")>>),
      Header("Bearer", <<>>),
      Header("bearer", <<GoodToken>>),
      Header("Bearer", <<GarbageToken(""), GoodToken>>),
      Header("Bearer", <<GoodToken, GarbageToken("invalid-token")>>) }
    \cup { Header("Bearer", <<t>>) : t \in PresentableTokens }

Usernames == {"admin", "Admin", "root"}
Passwords == {"secure_password_123", "Secure_password_123", ""}

Payloads ==
    { Payload(13, 13, FALSE, "", FALSE),            \* "Hello, World!"
      Payload(0, 0, TRUE, "", FALSE),               \* ""
      Payload(3, 3, TRUE, "", FALSE),               \* "   "
      Payload(19, 19, FALSE, "https://", TRUE),     \* "https://example.com"
      Payload(31, 31, FALSE, "https://", FALSE),    \* no TLD
      Payload(2000, 2000, FALSE, "", FALSE),
      Payload(2001, 2001, FALSE, "", FALSE),
      Payload(32, 32, FALSE, "ftp://", TRUE) }      \* ftp://files.example.com/data.txt

\* payloads handed to the validators and to the generator directly: plain
\* text around the length cap and around each capacity, text with
\* characters of more than one byte, blank text, text with a lone
\* surrogate, and text behind each scheme prefix, written in either case,
\* whose remainder does or does not match the URL pattern
Lengths == {1, 13, 2000, 2001}
    \cup {capacity_limits[e] : e \in DOMAIN capacity_limits}
    \cup {capacity_limits[e] + 1 : e \in DOMAIN capacity_limits}

Schemes == {"", "http://", "https://", "ftp://", "HTTP://", "Ftp://"}

UrlTails ==
    { UrlPatternTail(h, p, t) :
        h \in {"domain.tld", "domain", "localhost", "ipv4"},
        p \in {"", ":digits", ":word"},
        t \in {"", "/", "/path", "?query", "/pa th"} }

UnitPayloads ==
    { Payload(n, n, FALSE, "", FALSE) : n \in Lengths }
    \cup { Payload(n, n + 1, FALSE, "", FALSE) : n \in Lengths }
    \cup { Payload(n, 3 * n, FALSE, "", FALSE) : n \in {13, 700, 2000} }
    \cup { Payload(n, n, TRUE, "", FALSE) : n \in {0, 3, 2001} }
    \cup { Unencodable(Payload(n, 0, FALSE, "", FALSE)) : n \in {13, 2001} }
    \cup { Payload(n, n, FALSE, sch, ok) :
             n \in {31, 32, 2001}, sch \in Schemes, ok \in UrlTails }

ErrorCorrectionLevels == DOMAIN capacity_limits
OutputFormats == {"png", "svg", "jpeg", "pdf"}
QRSizes == {"small", "medium", "large"}

Paths == {PathHealth, PathDocs, PathToken, PathValidate, PathQr, PathAuthNoSlash}

Request(path, authorization, username, password, query_token, body) ==
    [path |-> path, authorization |-> authorization,
     username |-> username, password |-> password,
     query_token |-> query_token, body |-> body]

\* QRCodeRequest: size and output_format at their defaults
QrBody(data, ecc, format) ==
    [data |-> data, error_correction |-> ecc, format |-> format,
     size |-> "medium", output_format |-> "binary"]

SizedBody(data, ecc, format, size) ==
    [QrBody(data, ecc, format) EXCEPT !.size = size]

NoBody == QrBody(NoData, "M", "png")
NoRequest == Request(<<>>, NoHeader, "", "", NoQuery, NoBody)

HelloBody == QrBody(Payload(13, 13, FALSE, "", FALSE), "M", "png")
NoCall == Call("", NoBody, 0, "no", Returned(NoImage))
\* the second request in flight: what belongs to it, and the clock at its
\* gate step and at its handler step
NoOther == [req |-> NoRequest, pc |-> "idle", state |-> NoState,
            forwarded |-> FALSE, resp |-> NoResponse,
            t_gate |-> 0, t_handler |-> 0]

\* the requests that are handled two at a time
ConcRequests ==
    { Request(PathHealth, NoHeader, "", "", NoQuery, NoBody),
      Request(PathQr, NoHeader, "", "", NoQuery, HelloBody),
      Request(PathQr, Header("Bearer", <<GoodToken>>), "", "", NoQuery,
              HelloBody),
      Request(PathQr, Header("Bearer", <<GoodToken>>), "", "", NoQuery,
              QrBody(Payload(2000, 2000, FALSE, "", FALSE), "H", "svg")),
      Request(PathQr,
              Header("Bearer", <<[GoodToken EXCEPT !.key = "another-key"]>>),
              "", "", NoQuery, HelloBody),
      Request(PathToken, NoHeader, "admin", "secure_password_123", NoQuery,
              NoBody),
      Request(PathToken, NoHeader, "admin", "", NoQuery, NoBody),
      Request(PathValidate, Header("Bearer", <<GoodToken>>), "", "",
              [given |-> TRUE, token |-> GoodToken], NoBody) }

\* what the endpoint function of r's path may answer at clock clk
HandlerResponses(r, clk, mode) ==
    IF r.path = PathToken THEN {TokenEndpoint(r.username, r.password, clk)}
    ELSE IF r.path = PathValidate THEN {ValidateEndpoint(r.query_token, clk)}
    ELSE IF r.path = PathQr
    THEN IF ~QRCodeRequestOk(r.body.data, r.body.error_correction)
         THEN {Response(HTTP_422_UNPROCESSABLE_ENTITY, "", "")}
         ELSE { QrEndpoint(r.body, version, failure, mode).resp :
                  version \in Versions,
                  failure \in {"no", "encode", "draw", "respond"} }
    ELSE {Response(HTTP_200_OK, "", "")}

\* the requests tried on a path: every header with one body, and every
\* body and query string with one header
RequestsFor(path) ==
    IF path = PathToken
    THEN { Request(path, h, u, p, NoQuery, NoBody) :
             h \in {NoHeader}, u \in Usernames, p \in Passwords }
    ELSE IF path = PathValidate
    THEN { Request(path, Header("Bearer", <<t>>), "", "", NoQuery, NoBody) :
             t \in PresentableTokens }
         \cup { Request(path, Header("Bearer", <<t>>), "", "",
                         [given |-> TRUE, token |-> t], NoBody) :
                  t \in PresentableTokens }
         \cup { Request(path, NoHeader, "", "", NoQuery, NoBody) }
    ELSE IF path = PathQr
    THEN { Request(path, h, "", "", NoQuery, HelloBody) : h \in Headers }
         \cup { Request(path, Header("Bearer", <<GoodToken>>), "", "", NoQuery,
                         QrBody(d, e, f)) :
                  d \in Payloads, e \in {"M", "H"}, f \in OutputFormats }
         \cup { Request(path, Header("Bearer", <<GoodToken>>), "", "", NoQuery,
                         SizedBody(HelloBody.data, e, f, z)) :
                  e \in ErrorCorrectionLevels, f \in OutputFormats,
                  z \in QRSizes }
         \cup { Request(path, Header("Bearer", <<GoodToken>>), "", "", NoQuery,
                         [SizedBody(HelloBody.data, e, f, "small") EXCEPT
                            !.output_format = "base64"]) :
                  e \in {"M", "Q"}, f \in OutputFormats }
    ELSE { Request(path, h, "", "", NoQuery, NoBody) : h \in Headers }

(* ---- actions *)
Init ==
    /\ clock = StartClock
    /\ tz \in TzOffsets
    /\ enum_format \in EnumFormats
    /\ issued = NoIssued
    /\ req = NoRequest
    /\ pc = "idle"
    /\ state = NoState
    /\ trace = NoTrace
    /\ resp = NoResponse
    /\ svc = NoSvc
    /\ call = NoCall
    /\ other = NoOther

\* time passes by one tick
Tick ==
    /\ Elapsed % BigJump < MaxTicks
    /\ clock' = clock + 1
    /\ UNCHANGED <<tz, enum_format, issued, req, pc, state, trace, resp, svc, call, other>>

\* time passes by a whole default TTL
Jump ==
    /\ Elapsed \div BigJump < MaxJumps
    /\ clock' = clock + BigJump
    /\ UNCHANGED <<tz, enum_format, issued, req, pc, state, trace, resp, svc, call, other>>

\* a request arrives
Receive ==
    /\ pc = "idle"
    /\ \E path \in Paths : req' \in RequestsFor(path)
    /\ pc' = "gate"
    /\ UNCHANGED <<clock, tz, enum_format, issued, state, trace, resp, svc, call, other>>

\* the response has been sent: the request and what belongs to it are gone
Finish ==
    /\ pc = "done"
    /\ pc' = "idle"
    /\ req' = NoRequest
    /\ state' = NoState
    /\ trace' = NoTrace
    /\ resp' = NoResponse
    /\ UNCHANGED <<clock, tz, enum_format, issued, svc, call, other>>

\* auth_middleware, up to the point where it awaits call_next or raises
AuthMiddleware ==
    /\ pc = "gate"
    /\ IF Bypassed(req.path)
       THEN /\ pc' = "handler"
            /\ trace' = [trace EXCEPT !.forwarded = TRUE]
            /\ UNCHANGED <<state, resp>>
       ELSE LET g == AuthGate(req.authorization, clock)
            IN /\ pc' = IF g.admit THEN "handler" ELSE "done"
               /\ trace' = [trace EXCEPT !.forwarded = g.admit]
               /\ state' = g.state
               /\ resp' = g.resp
    /\ UNCHANGED <<clock, tz, enum_format, issued, req, svc, call, other>>

\* GET /v1/health: health_check()
HealthCheck ==
    /\ pc = "handler" /\ req.path = PathHealth
    /\ resp' = Response(HTTP_200_OK, "", "")
    /\ trace' = [trace EXCEPT !.handler = TRUE]
    /\ pc' = "done"
    /\ UNCHANGED <<clock, tz, enum_format, issued, req, state, svc, call, other>>

\* /docs, served by the framework
ServeDocs ==
    /\ pc = "handler" /\ req.path = PathDocs
    /\ resp' = Response(HTTP_200_OK, "", "")
    /\ trace' = [trace EXCEPT !.handler = TRUE]
    /\ pc' = "done"
    /\ UNCHANGED <<clock, tz, enum_format, issued, req, state, svc, call, other>>

\* a path no router has a route for
RouteNotFound ==
    /\ pc = "handler" /\ req.path = PathAuthNoSlash
    /\ resp' = Response(404, "", "Not Found")
    /\ trace' = [trace EXCEPT !.handler = TRUE]
    /\ pc' = "done"
    /\ UNCHANGED <<clock, tz, enum_format, issued, req, state, svc, call, other>>

\* POST /v1/auth/token
CreateAccessToken ==
    /\ pc = "handler" /\ req.path = PathToken
    /\ resp' = TokenEndpoint(req.username, req.password, clock)
    /\ issued' = IF resp'.status = HTTP_200_OK
                 THEN [any |-> TRUE, token |-> resp'.access_token,
                       t0 |-> clock, delta |-> NoDelta, via |-> "endpoint"]
                 ELSE issued
    /\ trace' = [trace EXCEPT !.handler = TRUE]
    /\ pc' = "done"
    /\ UNCHANGED <<clock, tz, enum_format, req, state, svc, call, other>>

\* POST /v1/auth/validate
ValidateToken ==
    /\ pc = "handler" /\ req.path = PathValidate
    /\ resp' = ValidateEndpoint(req.query_token, clock)
    /\ trace' = [trace EXCEPT !.handler = TRUE]
    /\ pc' = "done"
    /\ UNCHANGED <<clock, tz, enum_format, issued, req, state, svc, call, other>>

\* POST /v1/qr-code.  A body the request model rejects never reaches the
\* endpoint function: the framework answers 422.
GenerateQrCode ==
    /\ pc = "handler" /\ req.path = PathQr
    /\ IF ~QRCodeRequestOk(req.body.data, req.body.error_correction)
       THEN /\ resp' = Response(HTTP_422_UNPROCESSABLE_ENTITY, "", "")
            /\ trace' = trace
       ELSE \E failure \in {"no", "encode", "draw", "respond"},
               version \in Versions :
              LET r == QrEndpoint(req.body, version, failure, enum_format)
              IN /\ resp' = r.resp
                 /\ trace' = [trace EXCEPT !.handler = TRUE,
                                           !.steps = r.steps,
                                           !.rendered = r.rendered,
                                           !.failed = r.failed]
    /\ pc' = "done"
    /\ UNCHANGED <<clock, tz, enum_format, issued, req, state, svc, call, other>>

\* a direct call of AuthService.create_access_token, as the tests make
SvcIssue ==
    /\ pc = "idle"
    /\ \E delta \in {NoDelta, Delta(0 - 1), Delta(0), Delta(1)} :
         issued' = [any |-> TRUE,
                    token |-> SvcCreateAccessToken(
                                  [id |-> "test-user", scopes |-> TokenScopes],
                                  delta, clock, tz),
                    t0 |-> clock, delta |-> delta, via |-> "service"]
    /\ svc' = NoSvc
    /\ UNCHANGED <<clock, tz, enum_format, req, pc, state, trace, resp, call, other>>

\* a direct call of AuthService.verify_token
SvcVerify ==
    /\ pc = "idle"
    /\ \E t \in PresentableTokens :
         LET r == SvcVerifyToken(t, clock)
         IN svc' = [done |-> TRUE, token |-> t, clk |-> clock,
                    result |-> r.result, msg |-> r.msg]
    /\ UNCHANGED <<clock, tz, enum_format, issued, req, pc, state, trace, resp, call, other>>

\* a direct call of validate_qr_data
CallValidateQrData ==
    /\ pc = "idle" /\ call = NoCall
    /\ \E d \in UnitPayloads :
         call' = Call("validate_qr_data", QrBody(d, "M", "png"), 0, "no",
                      validate_qr_data(d))
    /\ UNCHANGED <<clock, tz, enum_format, issued, req, pc, state, trace, resp, svc, other>>

\* a direct call of validate_capacity
CallValidateCapacity ==
    /\ pc = "idle" /\ call = NoCall
    /\ \E d \in UnitPayloads, e \in ErrorCorrectionLevels :
         call' = Call("validate_capacity", QrBody(d, e, "png"), 0, "no",
                      validate_capacity(d, e))
    /\ UNCHANGED <<clock, tz, enum_format, issued, req, pc, state, trace, resp, svc, other>>

\* QRCodeRequest(data=..., error_correction=...) is constructed, or raises
CallQRCodeRequest ==
    /\ pc = "idle" /\ call = NoCall
    /\ \E d \in UnitPayloads, e \in ErrorCorrectionLevels :
         call' = Call("QRCodeRequest", QrBody(d, e, "png"), 0, "no",
                      IF QRCodeRequestOk(d, e) THEN Returned(NoImage)
                      ELSE Raised("ValidationError", ""))
    /\ UNCHANGED <<clock, tz, enum_format, issued, req, pc, state, trace, resp, svc, other>>

\* QRCodeGenerator().generate_qr_code(QRCodeRequest(...)), as the unit tests
\* call it: the request is constructed first
CallGenerate ==
    /\ pc = "idle" /\ call = NoCall
    /\ \E d \in UnitPayloads, e \in ErrorCorrectionLevels,
          f \in OutputFormats, z \in QRSizes, version \in Versions,
          failure \in {"no", "encode", "draw"} :
         call' = Call("generate_qr_code", SizedBody(d, e, f, z), version,
                      failure,
                      IF QRCodeRequestOk(d, e)
                      THEN generate_qr_code(SizedBody(d, e, f, z), version,
                                            failure)
                      ELSE Raised("ValidationError", ""))
    /\ UNCHANGED <<clock, tz, enum_format, issued, req, pc, state, trace, resp, svc, other>>

\* a direct call of QRCodeGenerator._generate_pdf_qr on a request the
\* validators accept
CallGeneratePdf ==
    /\ pc = "idle" /\ call = NoCall
    /\ \E d \in UnitPayloads, e \in ErrorCorrectionLevels, z \in QRSizes,
          version \in Versions, failure \in {"no", "encode", "draw"} :
         /\ QRCodeRequestOk(d, e)
         /\ validate_qr_data(d).is_valid
         /\ validate_capacity(d, e).is_valid
         /\ call' = Call("_generate_pdf_qr", SizedBody(d, e, "pdf", z),
                         version, failure,
                         generate_pdf_qr(SizedBody(d, e, "pdf", z), version,
                                         failure))
    /\ UNCHANGED <<clock, tz, enum_format, issued, req, pc, state, trace, resp, svc, other>>

\* the service behind HTTP, with tokens of either issuance path
Next ==
    \/ Tick
    \/ Jump
    \/ Receive
    \/ AuthMiddleware
    \/ HealthCheck
    \/ ServeDocs
    \/ RouteNotFound
    \/ CreateAccessToken
    \/ ValidateToken
    \/ GenerateQrCode
    \/ Finish
    \/ SvcIssue

Spec == Init /\ [][Next]_vars

\* the token service called directly
SvcNext ==
    \/ Tick
    \/ Jump
    \/ SvcIssue
    \/ SvcVerify

SvcSpec == Init /\ [][SvcNext]_vars

\* the direct call has returned or raised: nothing of it is kept
CallDone ==
    /\ call # NoCall
    /\ call' = NoCall
    /\ UNCHANGED <<clock, tz, enum_format, issued, req, pc, state, trace, resp, svc, other>>

(* ---- two requests in flight *)
\* a request arrives while another may be in flight
ConcReceive ==
    /\ pc = "idle"
    /\ req' \in ConcRequests
    /\ pc' = "gate"
    /\ UNCHANGED <<clock, tz, enum_format, issued, state, trace, resp, svc,
                   call, other>>

OtherReceive ==
    /\ other.pc = "idle"
    /\ \E r \in ConcRequests : other' = [other EXCEPT !.req = r, !.pc = "gate"]
    /\ UNCHANGED <<clock, tz, enum_format, issued, req, pc, state, trace, resp,
                   svc, call>>

\* auth_middleware for the second request, up to call_next or the raise
OtherGate_SharedHeader ==
    /\ other.pc = "gate"
    /\ LET g == AuthGate(req.authorization, clock)
           admit == Bypassed(other.req.path) \/ g.admit
       IN other' = [other EXCEPT
                      !.pc = IF admit THEN "handler" ELSE "done",
                      !.forwarded = admit,
                      !.state = IF Bypassed(other.req.path) THEN @
                                ELSE g.state,
                      !.resp = IF Bypassed(other.req.path) THEN @
                               ELSE g.resp,
                      !.t_gate = clock]
    /\ UNCHANGED <<clock, tz, enum_format, issued, req, pc, state, trace, resp,
                   svc, call>>
OtherGate ==
    /\ other.pc = "gate"
    /\ LET g == AuthGate(other.req.authorization, clock)
           admit == Bypassed(other.req.path) \/ g.admit
       IN other' = [other EXCEPT
                      !.pc = IF admit THEN "handler" ELSE "done",
                      !.forwarded = admit,
                      !.state = IF Bypassed(other.req.path) THEN @
                                ELSE g.state,
                      !.resp = IF Bypassed(other.req.path) THEN @
                               ELSE g.resp,
                      !.t_gate = clock]
    /\ UNCHANGED <<clock, tz, enum_format, issued, req, pc, state, trace, resp,
                   svc, call>>

\* the endpoint function of the second request
OtherHandle ==
    /\ other.pc = "handler"
    /\ \E a \in HandlerResponses(other.req, clock, enum_format) :
         other' = [other EXCEPT !.pc = "done", !.resp = a,
                                !.t_handler = clock]
    /\ UNCHANGED <<clock, tz, enum_format, issued, req, pc, state, trace, resp,
                   svc, call>>

OtherFinish ==
    /\ other.pc = "done"
    /\ other' = NoOther
    /\ UNCHANGED <<clock, tz, enum_format, issued, req, pc, state, trace, resp,
                   svc, call>>

ConcNext ==
    \/ Tick
    \/ ConcReceive
    \/ AuthMiddleware
    \/ HealthCheck
    \/ CreateAccessToken
    \/ ValidateToken
    \/ GenerateQrCode
    \/ Finish
    \/ OtherReceive
    \/ OtherGate
    \/ OtherHandle
    \/ OtherFinish

ConcSpec == Init /\ [][ConcNext]_vars

\* the validators, the request model and the generator called directly
UnitNext ==
    \/ CallValidateQrData
    \/ CallValidateCapacity
    \/ CallQRCodeRequest
    \/ CallGenerate
    \/ CallGeneratePdf
    \/ CallDone

UnitSpec == Init /\ [][UnitNext]_vars

(* ============================================================ claims *)
\* the token a request presents as "Authorization: Bearer <token>"
BearerToken(r) == r.authorization.rest[1]

\* a token is signed with the configured secret under the configured
\* algorithm and parses
Genuine(t) == t.wellformed /\ t.key = secret_key /\ t.alg = algorithm

\* C1: for a path that is not bypassed the gate forwards the request only
\* if it carries "Authorization: Bearer <token>" with a token that is
\* genuine and not expired when the gate checks it; the endpoint function
\* and the renderer run for no other request.
C1_HandlerOnlyIfVerified ==
    /\ []((~Bypassed(req.path)
            /\ (pc = "handler" \/ trace.forwarded \/ trace.handler
                  \/ trace.rendered))
          => /\ StartsWithBearer(req.authorization)
             /\ Genuine(BearerToken(req)))
    /\ [][(pc = "gate" /\ ~Bypassed(req.path) /\ pc' = "handler")
          => LET t == BearerToken(req)
             IN \/ IsNone(t.exp)
                \/ (t.exp.kind = "int" /\ t.exp.val * TicksPerSec >= clock)]_vars

C1_Witness ==
    /\ pc = "done" /\ req.path = PathQr
    /\ trace.rendered /\ resp.status = HTTP_200_OK

\* C7: the health endpoint never answers 401, whatever the headers; for
\* the health, docs and auth paths the gate forwards the request to the
\* handler without touching the request, its state or the response.
C7_BypassNeverRejects ==
    /\ []((pc = "done" /\ req.path = PathHealth)
          => resp.status = HTTP_200_OK)
    /\ [][(pc = "gate" /\ pc' # "gate"
             /\ req.path \in {PathHealth, PathDocs, PathToken, PathValidate})
          => (pc' = "handler" /\ trace'.forwarded /\ req' = req
                /\ state' = state /\ resp' = resp)]_vars

C7_Witness ==
    /\ pc = "done" /\ req.path = PathHealth
    /\ req.authorization = Header("Bearer", <<GarbageToken("invalid-token")>>)
    /\ resp.status = HTTP_200_OK

\* C9: POST /auth/token issues a token if and only if the username is the
\* configured one and the password equals the configured password; any
\* other pair gets one and the same 401 and no token.
C9_IssueIffCredentials ==
    [][(pc = "handler" /\ req.path = PathToken /\ pc' = "done")
         => IF req.username = "admin" /\ req.password = "secure_password_123"
            THEN /\ resp'.status = HTTP_200_OK
                 /\ Genuine(resp'.access_token)
                 /\ resp'.access_token.sub = req.username
                 /\ issued'.token = resp'.access_token
            ELSE /\ resp' = HTTPException(HTTP_401_UNAUTHORIZED,
                                          "Invalid username or password")
                 /\ resp'.access_token = NoToken
                 /\ issued' = issued]_vars

C9_Witness ==
    /\ pc = "done" /\ req.path = PathToken
    /\ resp.status = HTTP_200_OK /\ Genuine(resp.access_token)

\* the rejections of the gate, by the names the design gives them
MissingToken ==
    HTTPException(HTTP_401_UNAUTHORIZED, "Missing authentication token")
MalformedHeader ==
    HTTPException(HTTP_401_UNAUTHORIZED,
        "Invalid authentication token format. Expected: 'Bearer <token>'")
InvalidOrExpiredToken ==
    { HTTPException(HTTP_401_UNAUTHORIZED, "Invalid authentication token"),
      HTTPException(HTTP_401_UNAUTHORIZED, "Token has expired") }
GateInternalError ==
    HTTPException(HTTP_500_INTERNAL_SERVER_ERROR, "Authentication service error")

\* the step in which the gate decides about a request to a protected path
GateDecides == pc = "gate" /\ pc' # "gate" /\ ~Bypassed(req.path)

\* C8 as stated: no header -> MissingToken, a header that does not start
\* with "Bearer " -> MalformedHeader, a token failing verification ->
\* InvalidOrExpiredToken, each a 401, and every request gets exactly one of
\* these three rejections or is admitted.
C8_ThreeRejectionsOrAdmission ==
    [][GateDecides
         => LET h == req.authorization
            IN /\ ~h.present => (pc' = "done" /\ resp' = MissingToken)
               /\ (h.present /\ ~StartsWithBearer(h))
                    => (pc' = "done" /\ resp' = MalformedHeader)
               /\ (h.present /\ StartsWithBearer(h))
                    => \/ (pc' = "handler" /\ trace'.forwarded)
                       \/ (pc' = "done" /\ ~trace'.forwarded
                             /\ resp' \in InvalidOrExpiredToken)]_vars

\* C8 amended: a missing or empty header -> MissingToken; a non-empty
\* header that does not start with "Bearer " -> MalformedHeader; a token
\* that is not genuine or has expired -> InvalidOrExpiredToken; each a
\* 401.  A request gets exactly one of these three rejections, the generic
\* 500 (only for a genuine token whose exp is not a number), or admission.
C8_RejectionsGenericErrorOrAdmission ==
    [][GateDecides
         => LET h == req.authorization
                empty == ~h.present \/ h = Header("", <<>>)
                bearer == h.present /\ h.scheme = "Bearer" /\ Len(h.rest) >= 1
                t == h.rest[1]
            IN /\ empty => (pc' = "done" /\ resp' = MissingToken)
               /\ (~empty /\ ~bearer)
                    => (pc' = "done" /\ resp' = MalformedHeader)
               /\ bearer
                    => \/ (pc' = "handler" /\ trace'.forwarded
                             /\ resp' = NoResponse)
                       \/ (pc' = "done" /\ ~trace'.forwarded
                             /\ resp' \in InvalidOrExpiredToken)
                       \/ (pc' = "done" /\ ~trace'.forwarded
                             /\ resp' = GateInternalError
                             /\ Genuine(t) /\ t.exp.kind = "str")
               /\ (bearer /\ (~Genuine(t)
                               \/ (t.exp.kind = "int"
                                     /\ t.exp.val * TicksPerSec < clock
                                     /\ t.exp.val # 0)))
                    => resp' \in InvalidOrExpiredToken
               /\ pc' = "done" => ~trace'.forwarded]_vars

C8_Witness ==
    /\ pc = "done" /\ req.path = PathQr
    /\ req.authorization = Header("", <<>>)
    /\ resp = MissingToken

\* C2: a request to POST /qr-code with no Authorization header or with
\* an invalid token is answered 401 with the error category
\* "authentication_error" in the body.
C2_AuthenticationErrorCategory ==
    (/\ pc = "done" /\ req.path = PathQr
     /\ \/ ~req.authorization.present
        \/ (StartsWithBearer(req.authorization)
              /\ ~Genuine(BearerToken(req))))
    => (resp.status = HTTP_401_UNAUTHORIZED
          /\ resp.error = "authentication_error")

\* C3: the gate's verification succeeds only for a token that is signed
\* with the configured secret under the configured algorithm and whose
\* expiry is strictly later than the current time; a token whose expiry
\* equals the current time, or that has no expiry claim, is rejected.
C3_OnlyStrictlyUnexpired ==
    [][(GateDecides /\ pc' = "handler")
         => LET t == BearerToken(req)
            IN /\ Genuine(t)
               /\ t.exp.kind = "int"
               /\ t.exp.val * TicksPerSec > clock]_vars

\* C6: a request reaches the generation handler only if the scope list of
\* its token contains qr:generate.
C6_ScopeRequired ==
    (req.path = PathQr /\ (pc = "handler" \/ trace.forwarded))
    => "qr:generate" \in BearerToken(req).scopes

\* C10: POST /auth/validate always answers 200 with a body: valid=true
\* with the token's user_id and expires_at when the presented bearer
\* token verifies, valid=false when it does not.
C10_ValidateReportsValidity ==
    [][(pc = "handler" /\ pc' = "done" /\ req.path = PathValidate
          /\ StartsWithBearer(req.authorization))
         => LET t == BearerToken(req)
            IN /\ resp'.status = HTTP_200_OK
               /\ (Genuine(t) /\ t.exp.kind = "int"
                     /\ t.exp.val * TicksPerSec > clock)
                    => (resp'.valid = "true" /\ resp'.user_id = t.sub
                          /\ resp'.expires_at = t.exp)
               /\ ~Genuine(t) => resp'.valid = "false"]_vars

\* the TTL of the issued token in seconds: the one passed, or the default
IssuedTtl ==
    IF issued.delta.given THEN issued.delta.secs
    ELSE access_token_expire_minutes * 60

\* C4: a token issued by AuthService.create_access_token at time t0 with
\* TTL T verifies at every time from t0 to t0 + T and fails verification
\* at every time after t0 + T (stated for a process whose local zone is
\* UTC, where timestamp() of a naive UTC datetime is the UTC timestamp).
C4_RoundTrip ==
    (svc.done /\ issued.any /\ issued.via = "service" /\ tz = 0
       /\ svc.token = issued.token)
    => LET end == issued.t0 + IssuedTtl * TicksPerSec
       IN /\ svc.clk <= end => svc.result = "TokenPayload"
          /\ svc.clk > end => svc.result # "TokenPayload"

\* C5: every failure of verify_token is the same single outcome: a token
\* that fails one sub-check is rejected with the very result a token that
\* fails another sub-check gets (here: the result for a string that is not
\* a JWT at all).
C5_UniformFailure ==
    (svc.done /\ svc.result # "TokenPayload")
    => LET ref == SvcVerifyToken(GarbageToken("invalid-token"), svc.clk)
       IN svc.result = ref.result /\ svc.msg = ref.msg

(* ------------------------------------------------ capacity (C11, C12) *)
\* C11: for every error correction level (L=1663, M=1273, Q=927, H=713)
\* validate_capacity compares the payload's UTF-8 byte length, not its
\* character count, with the level's limit: more bytes than the limit fail
\* with the message that carries the limit and the actual size, as many or
\* fewer pass.
C11_CapacityByBytes ==
    (call.fn = "validate_capacity" /\ call.request.data.encodable)
    => LET d == call.request.data
           ecc == call.request.error_correction
           limit == CASE ecc = "L" -> 1663 [] ecc = "M" -> 1273
                      [] ecc = "Q" -> 927 [] ecc = "H" -> 713
       IN IF d.bytes > limit
          THEN call.result =
                 ValidationResult(FALSE, CapacityMessage(ecc, limit, d.bytes))
          ELSE call.result = ValidationResult(TRUE, "Valid")

\* a payload of 713 characters and 714 bytes was refused at level H
C11_Witness ==
    /\ call.fn = "validate_capacity"
    /\ call.request.error_correction = "H"
    /\ call.request.data.chars = 713 /\ call.request.data.bytes = 714
    /\ call.result.message =
         "Data too large for error correction level H. Maximum: 713 bytes, got: 714"

\* C12: every QRCodeRequest that is constructed holds a payload whose UTF-8
\* byte length does not exceed the capacity of its error correction level.
C12_ConstructedWithinCapacity ==
    (call.fn = "QRCodeRequest" /\ ~call.result.raised)
    => LET ecc == call.request.error_correction
           limit == CASE ecc = "L" -> 1663 [] ecc = "M" -> 1273
                      [] ecc = "Q" -> 927 [] ecc = "H" -> 713
       IN call.request.data.bytes <= limit

(* ------------------------------------------------- PDF fallback (C13) *)
\* C13: _generate_pdf_qr always returns a PDF document and raises nothing:
\* the page with the image, or the text page when a step of embedding the
\* image (raster generation, image reading, drawing) failed.
C13_PdfFallbackNeverFails ==
    call.fn = "_generate_pdf_qr"
    => /\ ~call.result.raised
       /\ call.result.image.kind =
            IF call.failure = "no" THEN "pdf" ELSE "pdf-text"

(* --------------------------------------------- URL check (C14, C15) *)
\* C14: a payload that begins with http://, https:// or ftp:// and is not a
\* well-formed URL is refused by validate_qr_data, with "Invalid URL
\* format" whenever its length is within the cap; a payload without such a
\* prefix never gets the URL check: what follows the prefix has no
\* influence on the result, which is never "Invalid URL format".
C14_UrlShapeCheck ==
    call.fn = "validate_qr_data"
    => LET d == call.request.data
           prefixed == d.scheme \in {"http://", "https://", "ftp://"}
       IN /\ (prefixed /\ ~d.host_ok)
             => /\ ~call.result.is_valid
                /\ d.chars <= 2000
                   => call.result.message = "Invalid URL format"
          /\ ~prefixed
             => /\ call.result.message # "Invalid URL format"
                /\ call.result =
                     validate_qr_data([d EXCEPT !.host_ok = ~d.host_ok])

\* 'https://invalid-url-without-tld' was refused for its shape
C14_Witness ==
    /\ call.fn = "validate_qr_data"
    /\ call.request.data = Payload(31, 31, FALSE, "https://", FALSE)
    /\ call.result = ValidationResult(FALSE, "Invalid URL format")

\* C15: for a payload that is a well-formed URL under http://, https:// or
\* ftp://, within the capacity of its level, the request is constructed
\* and the generator returns an image when the libraries do not fail.
C15_ValidUrlGenerates ==
    (/\ call.fn = "generate_qr_code"
     /\ call.request.data.scheme \in {"http://", "https://", "ftp://"}
     /\ call.request.data.host_ok
     /\ call.request.data.chars <= 713
     /\ call.failure = "no")
    => /\ ~call.result.raised
       /\ call.result.image.kind \in {"png", "jpeg", "svg", "pdf"}

(* ------------------------------------- errors of POST /qr-code (C16..C18) *)
\* C16: an authenticated POST /qr-code whose payload is empty or blank,
\* longer than 2000 characters, a malformed URL, or larger than the
\* capacity of its level is answered with status 400 and the category
\* validation_error, and carries no image.
C16_ValidationFailure400 ==
    (/\ pc = "done" /\ req.path = PathQr /\ trace.forwarded
     /\ LET d == req.body.data
            ecc == req.body.error_correction
            limit == CASE ecc = "L" -> 1663 [] ecc = "M" -> 1273
                       [] ecc = "Q" -> 927 [] ecc = "H" -> 713
        IN \/ d.chars = 0 \/ d.blank
           \/ d.chars > 2000
           \/ d.scheme \in {"http://", "https://", "ftp://"} /\ ~d.host_ok
           \/ d.bytes > limit)
    => /\ resp.status = 400
       /\ "validation_error" \in {resp.error, resp.detail_error}
       /\ resp.content.kind = ""

\* C17: when the encoder or a renderer fails on a request that passed
\* validation, the answer is the generation error: status 422 and the
\* category generation_error.
C17_GenerationError422 ==
    (pc = "done" /\ req.path = PathQr /\ trace.failed)
    => /\ resp.status = 422
       /\ "generation_error" \in {resp.error, resp.detail_error}

\* C18: an internal failure, in the gate or while generating, is answered
\* with status 500 and a fixed message; the text of what was raised reaches
\* the caller under no status.
C18_InternalErrorGeneric ==
    LET generic ==
          { "Authentication service error",
            "An unexpected error occurred while processing your request" }
    IN pc = "done"
       => /\ trace.failed
             => (resp.status = 500 /\ resp.detail \in generic)
          /\ resp.status = 500 => resp.detail \in generic

(* -------------------------------------------- length rules (C19) *)
\* C19: validate_qr_data refuses every payload that is empty or only white
\* space and every payload of more than 2000 characters, whatever the error
\* correction level (the generator raises for them at every level); the
\* length rule does not refuse a payload of exactly 2000 characters.
C19_EmptyAndLengthCap ==
    LET d == call.request.data
        lengthMessage == "Data exceeds maximum length of 2000 characters"
    IN /\ call.fn = "validate_qr_data"
          => /\ (d.chars = 0 \/ d.blank)
                => call.result =
                     ValidationResult(FALSE, "Data cannot be empty")
             /\ (d.chars > 2000 /\ ~d.blank)
                => call.result = ValidationResult(FALSE, lengthMessage)
             /\ d.chars <= 2000 => call.result.message # lengthMessage
             /\ (d.chars = 2000 /\ d.scheme = "" /\ d.encodable /\ ~d.blank)
                => call.result = ValidationResult(TRUE, "Valid")
       /\ (call.fn = "generate_qr_code"
           /\ (d.chars = 0 \/ d.blank \/ d.chars > 2000))
          => call.result.raised

\* a payload of exactly 2000 characters was accepted
C19_Witness ==
    /\ call.fn = "validate_qr_data"
    /\ call.request.data = Payload(2000, 2000, FALSE, "", FALSE)
    /\ call.result = ValidationResult(TRUE, "Valid")

(* -------------------------------------------- raster size (C20) *)
\* C20: a PNG or JPEG image that the generator returns has exactly the
\* pixel dimensions of the request's size class, small 150x150, medium
\* 300x300, large 600x600, whatever the payload, the error correction level
\* and the version of the symbol.
C20_RasterDimensions ==
    (/\ call.fn = "generate_qr_code" /\ ~call.result.raised
     /\ call.request.format \in {"png", "jpeg"})
    => LET side == CASE call.request.size = "small" -> 150
                     [] call.request.size = "medium" -> 300
                     [] call.request.size = "large" -> 600
       IN /\ call.result.image.kind = call.request.format
          /\ call.result.image.width = side
          /\ call.result.image.height = side

\* a version 1 symbol, 290 pixels a side as drawn, came out as a large JPEG
\* of 600x600
C20_Witness ==
    /\ call.fn = "generate_qr_code" /\ call.version = 1
    /\ MakeImage(call.version).width = 290
    /\ call.request.format = "jpeg" /\ call.request.size = "large"
    /\ call.result.image = [kind |-> "jpeg", width |-> 600, height |-> 600]

(* ------------------------- the response of POST /qr-code (C21, C22) *)
\* C21: a binary image response carries the Content-Type of the requested
\* format alone: png -> image/png, svg -> image/svg+xml, jpeg -> image/jpeg,
\* pdf -> application/pdf, whatever the other fields of the request.
C21_ContentTypePerFormat ==
    (/\ pc = "done" /\ req.path = PathQr /\ resp.status = 200
     /\ req.body.output_format = "binary")
    => resp.media = CASE req.body.format = "png" -> "image/png"
                      [] req.body.format = "svg" -> "image/svg+xml"
                      [] req.body.format = "jpeg" -> "image/jpeg"
                      [] req.body.format = "pdf" -> "application/pdf"

AloneResponses(r, c1, c2, mode) ==
    IF Bypassed(r.path) THEN HandlerResponses(r, c2, mode)
    ELSE IF AuthGate(r.authorization, c1).admit
    THEN HandlerResponses(r, c2, mode)
    ELSE {AuthGate(r.authorization, c1).resp}

\* the clocks at which a request in flight may have taken its steps
ClockWindow == StartClock .. clock

C24_ExpiryIsIssuedAtPlusTtl ==
    /\ (issued.any /\ tz = 0)
       => issued.token.exp.val = issued.token.iat.val + IssuedTtl
    /\ (pc = "done" /\ req.path = PathToken /\ resp.status = 200)
       => resp.expires_in = 30 * 60

C26_PipelineOrder ==
    (pc = "done" /\ req.path = PathQr)
    => /\ \E n \in 0..Len(Pipeline) : trace.steps = SubSeq(Pipeline, 1, n)
       /\ (\E i \in DOMAIN trace.steps : trace.steps[i] \in {"encode", "render"})
          => /\ trace.forwarded
             /\ validate_qr_data(req.body.data).is_valid
             /\ validate_capacity(req.body.data,
                                  req.body.error_correction).is_valid
       /\ resp.status = HTTP_200_OK => trace.steps = Pipeline
       /\ ~trace.forwarded => trace.steps = << >>

\* a request went through the whole pipeline
C26_Witness ==
    /\ pc = "done" /\ req.path = PathQr /\ trace.forwarded
    /\ trace.steps = Pipeline /\ resp.status = HTTP_200_OK


(* ------------------------------------------------------ SVG output (C27) *)
\* C27: the SVG of a symbol is its module matrix drawn with box_size 10 and
\* a border of 4 modules: width = height = (matrix_side + 2 * 4) * 10 and
\* exactly one black square of side 10 per dark module, at
\* x = (col + 4) * 10, y = (row + 4) * 10; the size class of the request
\* does not change the output.
C27_SvgFromModuleMatrix ==
    (/\ call.fn = "generate_qr_code" /\ call.request.format = "svg"
     /\ ~call.result.raised)
    => LET img == call.result.image
           matrix_side == MatrixSize(call.version)
       IN /\ img.width = (matrix_side + 2 * 4) * 10
          /\ img.height = (matrix_side + 2 * 4) * 10
          /\ img.rects = {[x |-> (m[2] + 4) * 10, y |-> (m[1] + 4) * 10,
                           width |-> 10, height |-> 10] :
                          m \in Modules(call.version)}
          /\ \A z \in QRSizes :
               generate_svg_qr([call.request EXCEPT !.size = z],
                               call.version, call.failure).image = img


(* ------------------------------------------ verification paths (C28) *)
\* a request that carries exactly "Authorization: Bearer <token>"
CarriesToken(r) ==
    /\ r.authorization.present /\ r.authorization.scheme = "Bearer"
    /\ Len(r.authorization.rest) = 1

\* C28: the gate, POST /auth/validate and AuthService.verify_token accept
\* the same tokens at the same time: the gate admits a request with a token
\* exactly if verify_token returns a payload for it, and /auth/validate
\* reports valid=true for it exactly if verify_token returns a payload.
C28_SameAcceptedTokens ==
    [][/\ (pc = "gate" /\ pc' # "gate" /\ ~Bypassed(req.path)
           /\ CarriesToken(req))
          => (trace'.forwarded <=>
                SvcVerifyToken(BearerToken(req), clock).result = "TokenPayload")
       /\ (pc = "handler" /\ pc' = "done" /\ req.path = PathValidate
           /\ CarriesToken(req))
          => (resp'.valid = "true" <=>
                SvcVerifyToken(BearerToken(req), clock).result = "TokenPayload")
      ]_vars


(* ------------------------------------------- scheme letter case (C29) *)
\* the scheme prefix of a payload in lower case
LowerScheme(scheme) ==
    IF scheme = "HTTP://" THEN "http://"
    ELSE IF scheme = "HTTPS://" THEN "https://"
    ELSE IF scheme = "Ftp://" THEN "ftp://"
    ELSE scheme

\* C29: the verdict of validate_qr_data does not depend on the letter case
\* of the scheme: a payload gets the verdict of the payload that differs
\* from it only by having the scheme in lower case.
C29_SchemeCaseIrrelevant ==
    call.fn = "validate_qr_data"
    => call.result =
         validate_qr_data([call.request.data EXCEPT
                              !.scheme = LowerScheme(@)])

====
